---------------------------- MODULE Spec2Model ----------------------------
(***************************************************************************)
(* A model of Aviation_incidents_app/app.py: the loading and cleaning of   *)
(* the incident table (load_data), the safe aggregations                   *)
(* (safe_groupby_operation, safe_metric_calculation), the filter engine    *)
(* (apply_filters, add_dropdown) and one interaction pass of main with its *)
(* page renderers.                                                         *)
(*                                                                         *)
(* A table (pandas DataFrame) is [cols, rows]: the sequence of its column  *)
(* labels (labels may repeat, as in pandas) and the sequence of its rows,  *)
(* each row a sequence of cells aligned with cols.  A cell is one of       *)
(*    <<"nan", 0, 1>>      a missing value (NaN)                           *)
(*    <<"num", n, d>>      the number n/d in lowest terms, d > 0           *)
(*    <<"str", s, 1>>      the text s                                      *)
(* Floating-point numbers are modelled by exact rationals.                 *)
(***************************************************************************)
EXTENDS Integers, Sequences, FiniteSets, TLC

VARIABLES
    pc,        \* position of the running script
    raw,       \* the content of the CSV file as pd.read_csv delivers it
    df,        \* the table load_data returned
    filters,   \* the dict of predicates, a sequence of <<column, value>>
    fdf,       \* the (partially) filtered table
    page,      \* the page chosen in the navigation selectbox
    out,       \* what the pass has shown to the user so far
    calls,     \* the functions the pass has called, with the rows they received
    result     \* the value the last aggregation call returned

vars == <<pc, raw, df, filters, fdf, page, out, calls, result>>

(***************************************************************************)
(* Bounds of the model.                                                    *)
(***************************************************************************)
MaxHeaderCols == 2   \* columns of a raw header in the header inputs
MaxLoadRows == 1     \* records of a raw table in the value inputs
MaxFilterRows == 2   \* records of a table handed to apply_filters
MaxAggRows == 3      \* records of a table handed to an aggregation
MaxAbsent == 1       \* optional columns a dashboard table lacks
MaxActive == 2       \* predicates of one pass that are not "All"

(***************************************************************************)
(* Cells and rational arithmetic.                                          *)
(***************************************************************************)
NaN == <<"nan", 0, 1>>

RECURSIVE GCD(_, _)
GCD(a, b) == IF b = 0 THEN a ELSE GCD(b, a % b)

Abs(n) == IF n < 0 THEN -n ELSE n

\* The number n/d (d > 0) in lowest terms.
Rat(n, d) == LET g == GCD(Abs(n), d) IN <<"num", n \div g, d \div g>>

Num(n) == <<"num", n, 1>>

Str(s) == <<"str", s, 1>>

IsNum(c) == c[1] = "num"

IsNaN(c) == c[1] = "nan"

RatLe(x, y) == x[2] * y[3] <= y[2] * x[3]

RatLt(x, y) == x[2] * y[3] < y[2] * x[3]

RatAdd(x, y) == Rat(x[2] * y[3] + y[2] * x[3], x[3] * y[3])

RatSub(x, y) == Rat(x[2] * y[3] - y[2] * x[3], x[3] * y[3])

\* x / y for y > 0
RatDiv(x, y) == Rat(x[2] * y[3], x[3] * y[2])

\* Series.clip(lo, hi) on one number
Clip(x, lo, hi) == IF RatLt(x, lo) THEN lo ELSE IF RatLt(hi, x) THEN hi ELSE x

(***************************************************************************)
(* Tables.                                                                 *)
(***************************************************************************)
\* pd.DataFrame(): no columns, no rows
EmptyTable == [cols |-> <<>>, rows |-> <<>>]

Range(s) == {s[i] : i \in DOMAIN s}

\* col in df.columns
HasCol(t, c) == \E i \in DOMAIN t.cols : t.cols[i] = c

ColIdx(t, c) == {i \in DOMAIN t.cols : t.cols[i] = c}

\* df[c] is a DataFrame, not a Series, when the label c repeats
IsDup(t, c) == Cardinality(ColIdx(t, c)) > 1

ColPos(t, c) == CHOOSE i \in DOMAIN t.cols : t.cols[i] = c

\* df[c] for a label that occurs once: the Series of its cells
Series(t, c) == [r \in DOMAIN t.rows |-> t.rows[r][ColPos(t, c)]]

\* df.empty: either axis has length 0
IsEmpty(t) == Len(t.cols) = 0 \/ Len(t.rows) = 0

\* df[c] = s: replaces the column in place, or appends a new one
SetCol(t, c, s) ==
    IF HasCol(t, c)
    THEN [t EXCEPT !.rows = [r \in DOMAIN t.rows |->
                                [t.rows[r] EXCEPT ![ColPos(t, c)] = s[r]]]]
    ELSE [cols |-> Append(t.cols, c),
          rows |-> [r \in DOMAIN t.rows |-> Append(t.rows[r], s[r])]]

(***************************************************************************)
(* load_data                                                               *)
(***************************************************************************)
rename_map ==
    ("year" :> "Year") @@ ("Year" :> "Year") @@
    ("month" :> "Month") @@ ("Month" :> "Month") @@
    ("month_name" :> "Month Name") @@ ("Month Name" :> "Month Name") @@
    ("country" :> "Country") @@ ("Country" :> "Country") @@
    ("city" :> "City") @@ ("City" :> "City") @@
    ("region" :> "Region") @@ ("Region" :> "Region") @@
    ("operator" :> "Operator") @@ ("Operator" :> "Operator") @@
    ("aircraft" :> "Aircraft") @@ ("Aircraft" :> "Aircraft") @@
    ("aircraft_manufacturer" :> "Aircraft Manufacturer") @@
    ("Aircraft Manufacturer" :> "Aircraft Manufacturer") @@
    ("aboard" :> "Aboard") @@ ("Aboard" :> "Aboard") @@
    ("fatalities_(air)" :> "Fatalities (Air)") @@
    ("Fatalities (Air)" :> "Fatalities (Air)") @@
    ("ground" :> "Ground") @@ ("Ground" :> "Ground")

\* df.rename(columns={k: v for k, v in rename_map.items() if k in df.columns})
Rename(t) ==
    [t EXCEPT !.cols = [i \in DOMAIN t.cols |->
        IF t.cols[i] \in DOMAIN rename_map THEN rename_map[t.cols[i]]
        ELSE t.cols[i]]]

numeric_cols == <<"Year", "Month", "Aboard", "Fatalities (Air)", "Ground">>

\* The texts of the model that parse as a number.
NumericText == ("2" :> 2)

\* pd.to_numeric(..., errors="coerce") on one cell
to_numeric(c) ==
    IF c[1] = "str"
    THEN IF c[2] \in DOMAIN NumericText THEN Num(NumericText[c[2]]) ELSE NaN
    ELSE c

\* pd.to_numeric raises a TypeError when df[col] is a DataFrame
NumericRaises(t) == \E i \in DOMAIN numeric_cols : IsDup(t, numeric_cols[i])

\* the loop over numeric_cols (no label repeats)
NumericConvert(t) ==
    [t EXCEPT !.rows = [r \in DOMAIN t.rows |-> [i \in DOMAIN t.cols |->
        IF t.cols[i] \in Range(numeric_cols) THEN to_numeric(t.rows[r][i])
        ELSE t.rows[r][i]]]]

month_names ==
    <<"January", "February", "March", "April", "May", "June", "July",
      "August", "September", "October", "November", "December">>

\* df['Month'].map(month_names) on one cell
MonthName(c) ==
    IF IsNum(c) /\ c[3] = 1 /\ c[2] \in DOMAIN month_names
    THEN Str(month_names[c[2]]) ELSE NaN

AddMonthName(t) ==
    IF ~HasCol(t, "Month Name") /\ HasCol(t, "Month")
    THEN SetCol(t, "Month Name",
                [r \in DOMAIN t.rows |-> MonthName(Series(t, "Month")[r])])
    ELSE t

\* 1 - (fatalities / aboard).clip(0, 1), without the clip
SurvivalRateNoClip(aboard, fatalities) ==
    IF IsNum(aboard) /\ aboard[2] > 0 /\ ~IsNaN(fatalities)
    THEN RatSub(Num(1), RatDiv(fatalities, aboard))
    ELSE NaN

\* np.where((Aboard > 0) & Fatalities.notna(),
\*          1 - (Fatalities / Aboard).clip(0, 1), np.nan) on one record
SurvivalRate(aboard, fatalities) ==
    IF IsNum(aboard) /\ aboard[2] > 0 /\ ~IsNaN(fatalities)
    THEN RatSub(Num(1), Clip(RatDiv(fatalities, aboard), Num(0), Num(1)))
    ELSE NaN

AddSurvivalRate(t) ==
    IF HasCol(t, "Aboard") /\ HasCol(t, "Fatalities (Air)")
    THEN SetCol(t, "Survival Rate",
                [r \in DOMAIN t.rows |->
                    SurvivalRate(Series(t, "Aboard")[r],
                                 Series(t, "Fatalities (Air)")[r])])
    ELSE t

\* Whether the try block of load_data raises on the file content f.
LoadRaises(f) == ~f.readable \/ NumericRaises(Rename(f.table))

\* load_data whose except branch returns df as far as it got
load_data_returns_partial(f) ==
    IF ~f.readable THEN EmptyTable
    ELSE IF NumericRaises(Rename(f.table)) THEN Rename(f.table)
    ELSE AddSurvivalRate(AddMonthName(NumericConvert(Rename(f.table))))

load_data(f) ==
    IF LoadRaises(f) THEN EmptyTable
    ELSE AddSurvivalRate(AddMonthName(NumericConvert(Rename(f.table))))

(***************************************************************************)
(* The file contents load_data is run on.  A file is [readable, table]:    *)
(* pd.read_csv raises on an unreadable file and returns the table          *)
(* otherwise; read_csv never delivers the same label twice.                *)
(***************************************************************************)
Unreadable == [readable |-> FALSE, table |-> EmptyTable]

File(cols, rows) == [readable |-> TRUE, table |-> [cols |-> cols, rows |-> rows]]

SeqsUpTo(S, n) == UNION {[1..k -> S] : k \in 0..n}

Distinct(s) == \A i, j \in DOMAIN s : i # j => s[i] # s[j]

HeaderNames == DOMAIN rename_map \cup {"Flight", "Survival Rate"}

\* the cell the header inputs hold under a column
SampleCell(name) ==
    IF name \in DOMAIN rename_map /\ rename_map[name] \in Range(numeric_cols)
    THEN Num(1) ELSE Str("x")

\* every header of at most MaxHeaderCols distinct names, over one record
HeaderInputs ==
    {File(h, <<[i \in DOMAIN h |-> SampleCell(h[i])]>>) :
        h \in {s \in SeqsUpTo(HeaderNames, MaxHeaderCols) : Len(s) > 0 /\ Distinct(s)}}

ValueCells ==
    {NaN, Num(-1), Num(0), Num(1), Num(2), Num(3), Str("x"), Str("2")}

ValueHeaders ==
    {<<"Aboard", "Fatalities (Air)">>, <<"fatalities_(air)", "aboard">>}

\* the two survival-rate inputs under either spelling, over every record
ValueInputs ==
    {File(h, rs) : h \in ValueHeaders,
                   rs \in SeqsUpTo(ValueCells \X ValueCells, MaxLoadRows)}

LoadInputs == {Unreadable} \cup HeaderInputs \cup ValueInputs

Idle ==
    /\ filters = <<>>
    /\ fdf = EmptyTable
    /\ page = "none"
    /\ out = <<>>
    /\ calls = <<>>
    /\ result = NaN

InitLoad ==
    /\ pc = "start"
    /\ raw \in LoadInputs
    /\ df = EmptyTable
    /\ Idle

\* main, line 166: df = load_data(DATA_PATH); load_data reports what it caught
Load ==
    /\ pc = "start"
    /\ df' = load_data(raw)
    /\ out' = IF LoadRaises(raw)
              THEN Append(out, <<"error", "Error loading data", NaN>>)
              ELSE out
    /\ calls' = Append(calls, <<"load_data", 0>>)
    /\ pc' = "loaded"
    /\ UNCHANGED <<raw, filters, fdf, page, result>>

SpecLoad == InitLoad /\ [][Load]_vars

(***************************************************************************)
(* C1: after load_data, in a table that has both Aboard and Fatalities     *)
(* (Air), a record with Aboard > 0 and known Fatalities (Air) has a        *)
(* defined Survival Rate in [0,1] equal to 1 - clamp(Fatalities/Aboard, 0, *)
(* 1): 1 when Fatalities is negative, 0 when it exceeds Aboard, and        *)
(* (Aboard - Fatalities)/Aboard otherwise; every other record has a        *)
(* missing Survival Rate.                                                  *)
(***************************************************************************)
SurvivalRateContract ==
    (pc = "loaded" /\ HasCol(df, "Aboard") /\ HasCol(df, "Fatalities (Air)")) =>
        /\ HasCol(df, "Survival Rate")
        /\ \A r \in DOMAIN df.rows :
             LET a == Series(df, "Aboard")[r]
                 f == Series(df, "Fatalities (Air)")[r]
                 s == Series(df, "Survival Rate")[r]
             IN  IF IsNum(a) /\ a[2] > 0 /\ IsNum(f)
                 THEN /\ IsNum(s)
                      /\ s[2] >= 0 /\ s[2] <= s[3]
                      /\ GCD(s[2], s[3]) = 1
                      /\ IF f[2] < 0 THEN s = Num(1)
                         ELSE IF f[2] * a[3] > a[2] * f[3] THEN s = Num(0)
                         ELSE s[2] * (a[2] * f[3])
                                = s[3] * (a[2] * f[3] - f[2] * a[3])
                 ELSE s = NaN

\* a loaded record whose fatalities exceed the number aboard: the clamp acts
SurvivalRateWitness ==
    /\ pc = "loaded"
    /\ HasCol(df, "Aboard") /\ HasCol(df, "Fatalities (Air)")
    /\ \E r \in DOMAIN df.rows :
         /\ Series(df, "Aboard")[r] = Num(2)
         /\ Series(df, "Fatalities (Air)")[r] = Num(3)
         /\ Series(df, "Survival Rate")[r] = Num(0)

(***************************************************************************)
(* C3: for a readable file, every recognized column of the header appears  *)
(* in the loaded table under its canonical name, whichever alias variants  *)
(* the header held; no alias-only name remains; unrecognized columns keep  *)
(* their names.                                                            *)
(***************************************************************************)
AliasOnly == {k \in DOMAIN rename_map : rename_map[k] # k}

AliasNormalization ==
    (pc = "loaded" /\ raw.readable) =>
        /\ \A i \in DOMAIN raw.table.cols :
             LET n == raw.table.cols[i]
             IN  IF n \in DOMAIN rename_map THEN HasCol(df, rename_map[n])
                 ELSE HasCol(df, n)
        /\ \A i \in DOMAIN df.cols : df.cols[i] \notin AliasOnly

(***************************************************************************)
(* safe_groupby_operation and safe_metric_calculation                      *)
(***************************************************************************)
\* default of safe_groupby_operation, the en dash (written "-" here)
Sentinel == Str("-")

\* default = None of safe_metric_calculation
None == <<"none", 0, 1>>

\* value_col = None: `value_col and ...` takes None and "" the same way
NoCol == ""

\* The texts of the model in lexicographic order (Python's str ordering).
Lexicographic ==
    <<"A320", "Airbus", "B747", "BA", "Boeing", "Europe", "February",
      "January", "London", "NYC", "North America", "PanAm", "Paris",
      "UK", "USA", "x">>

StrRank(s) == CHOOSE i \in DOMAIN Lexicographic : Lexicographic[i] = s

\* the order groupby sorts its keys by (keys of one type)
KeyLe(a, b) == IF IsNum(a) THEN RatLe(a, b) ELSE StrRank(a[2]) <= StrRank(b[2])

\* the distinct non-missing values of a Series (dropna().unique())
Keys(s) == {s[i] : i \in {j \in DOMAIN s : ~IsNaN(s[j])}}

Count(s, v) == Cardinality({i \in DOMAIN s : s[i] = v})

FirstPos(s, v) == CHOOSE i \in DOMAIN s :
    s[i] = v /\ \A j \in DOMAIN s : s[j] = v => i <= j

\* value_counts().idxmax() that returns the first value met, whatever its count
FirstValue(s) == CHOOSE v \in Keys(s) :
    \A w \in Keys(s) : FirstPos(s, v) <= FirstPos(s, w)

\* df[group_col].value_counts().idxmax(): value_counts drops the missing
\* values and orders by descending count, values of equal count in the
\* order they are first met; idxmax takes the first maximum.
value_counts_idxmax(s) == CHOOSE v \in Keys(s) :
    \A w \in Keys(s) :
        \/ Count(s, w) < Count(s, v)
        \/ Count(s, w) = Count(s, v) /\ FirstPos(s, v) <= FirstPos(s, w)

\* Series.sum(): missing entries are skipped, the sum of none is 0
RECURSIVE SumSkipNa(_)
SumSkipNa(s) ==
    IF s = <<>> THEN Num(0)
    ELSE IF IsNaN(Head(s)) THEN SumSkipNa(Tail(s))
    ELSE RatAdd(Head(s), SumSkipNa(Tail(s)))

NotNaN(c) == ~IsNaN(c)

\* df.groupby(group_col)[value_col].sum() at key k
GroupSum(t, group_col, value_col, k) ==
    LET g == Series(t, group_col)
        v == Series(t, value_col)
        RECURSIVE Pick(_)
        Pick(i) == IF i > Len(t.rows) THEN <<>>
                   ELSE IF g[i] = k THEN <<v[i]>> \o Pick(i + 1)
                   ELSE Pick(i + 1)
    IN  SumSkipNa(Pick(1))

\* result.idxmax(): the first key, in sorted key order, of maximal sum
GroupSumIdxmax(t, group_col, value_col) ==
    LET ks == Keys(Series(t, group_col))
        sum(k) == GroupSum(t, group_col, value_col, k)
    IN  CHOOSE k \in ks : \A w \in ks :
            \/ RatLt(sum(w), sum(k))
            \/ sum(w) = sum(k) /\ KeyLe(k, w)

safe_groupby_operation(t, group_col, value_col, operation, default) ==
    IF IsEmpty(t) \/ ~HasCol(t, group_col) THEN default
    ELSE IF operation = "count"
    THEN \* idxmax of an empty value_counts raises ValueError, caught in line 86
         IF Keys(Series(t, group_col)) = {} THEN default
         ELSE value_counts_idxmax(Series(t, group_col))
    ELSE IF operation = "sum_max" /\ value_col # NoCol /\ HasCol(t, value_col)
    THEN \* groupby drops the missing keys; result.empty when none is left
         IF Keys(Series(t, group_col)) = {} THEN default
         ELSE GroupSumIdxmax(t, group_col, value_col)
    ELSE default

\* Series.mean() that divides by the length of the series
MeanOverLen(s) == RatDiv(SumSkipNa(s), Num(Len(s)))

\* Series.mean(): missing entries are skipped
Mean(s) == RatDiv(SumSkipNa(s), Num(Len(SelectSeq(s, NotNaN))))

safe_metric_calculation(series, operation, default) ==
    IF series = <<>> \/ \A i \in DOMAIN series : IsNaN(series[i]) THEN default
    ELSE IF operation = "mean" THEN Mean(series)
    ELSE IF operation = "sum" THEN SumSkipNa(series)
    ELSE default

\* fdf.get(col, pd.Series())
Get(t, c) == IF HasCol(t, c) THEN Series(t, c) ELSE <<>>

(***************************************************************************)
(* The aggregations on every small table of a group column (Country) and a *)
(* numeric value column (Fatalities (Air)), either of which may be absent. *)
(***************************************************************************)
GroupCells == {NaN, Str("UK"), Str("USA")}

AggValueCells == {NaN, Num(-1), Num(0), Num(2)}

AggTables ==
    {[cols |-> <<"Country", "Fatalities (Air)">>, rows |-> rs] :
        rs \in SeqsUpTo(GroupCells \X AggValueCells, MaxAggRows)}
    \cup {[cols |-> <<"Country">>, rows |-> rs] :
        rs \in SeqsUpTo({<<c>> : c \in GroupCells}, MaxAggRows)}
    \cup {[cols |-> <<"Fatalities (Air)">>, rows |-> rs] :
        rs \in SeqsUpTo({<<c>> : c \in AggValueCells}, MaxAggRows)}
    \cup {EmptyTable}

InitAgg ==
    /\ pc = "start"
    /\ raw = Unreadable
    /\ df \in AggTables
    /\ Idle

\* a call safe_groupby_operation(df, "Country", value_col, operation)
CallGroupby ==
    /\ pc = "start"
    /\ \E operation \in {"count", "sum_max", "median"},
          value_col \in {NoCol, "Fatalities (Air)"} :
         /\ result' = safe_groupby_operation(df, "Country", value_col,
                                             operation, Sentinel)
         /\ calls' = <<<<"safe_groupby_operation", operation, value_col>>>>
    /\ pc' = "returned"
    /\ UNCHANGED <<raw, df, filters, fdf, page, out>>

\* a call safe_metric_calculation(df.get("Fatalities (Air)", pd.Series()), operation)
CallMetric ==
    /\ pc = "start"
    /\ \E operation \in {"mean", "sum", "median"} :
         /\ result' = safe_metric_calculation(Get(df, "Fatalities (Air)"),
                                              operation, None)
         /\ calls' = <<<<"safe_metric_calculation", operation, NoCol>>>>
    /\ pc' = "returned"
    /\ UNCHANGED <<raw, df, filters, fdf, page, out>>

NextAgg == CallGroupby \/ CallMetric

SpecAgg == InitAgg /\ [][NextAgg]_vars

Returned(fn, operation) ==
    pc = "returned" /\ calls[1][1] = fn /\ calls[1][2] = operation

(***************************************************************************)
(* C4: groupSum returns the sentinel when the table is empty, the group or *)
(* the value column is absent, or the grouped result is empty, which       *)
(* includes every entry of the value column being missing.                 *)
(***************************************************************************)
GroupSumSentinel ==
    (Returned("safe_groupby_operation", "sum_max")
        /\ \/ IsEmpty(df)
           \/ ~HasCol(df, "Country")
           \/ calls[1][3] = NoCol
           \/ ~HasCol(df, "Fatalities (Air)")
           \/ \A r \in DOMAIN df.rows : IsNaN(Series(df, "Country")[r])
           \/ \A r \in DOMAIN df.rows : IsNaN(Series(df, "Fatalities (Air)")[r]))
    => result = Sentinel

(***************************************************************************)
(* C5: for op in {mean, sum}, reduce returns the sentinel (not 0, not NaN) *)
(* exactly when the series is empty or all missing; otherwise the sum, or  *)
(* the mean, of the non-missing entries only.                              *)
(***************************************************************************)
RECURSIVE IntTotal(_, _)
IntTotal(s, I) ==
    IF I = {} THEN 0
    ELSE LET i == CHOOSE j \in I : TRUE IN s[i][2] + IntTotal(s, I \ {i})

ReduceContract ==
    \A op \in {"mean", "sum"} :
        Returned("safe_metric_calculation", op) =>
            LET s == Get(df, "Fatalities (Air)")
                known == {i \in DOMAIN s : ~IsNaN(s[i])}
            IN  /\ result # Num(0) \/ known # {}
                /\ result # NaN
                /\ (result = None) <=> (known = {})
                /\ known # {} =>
                     /\ IsNum(result)
                     /\ op = "sum" => result = Num(IntTotal(s, known))
                     /\ op = "mean" =>
                          result[2] * Cardinality(known)
                            = result[3] * IntTotal(s, known)

\* a mean over a series that holds a missing and a known entry
ReduceWitness ==
    /\ Returned("safe_metric_calculation", "mean")
    /\ HasCol(df, "Fatalities (Air)")
    /\ \E i, j \in DOMAIN df.rows :
         /\ IsNaN(Series(df, "Fatalities (Air)")[i])
         /\ Series(df, "Fatalities (Air)")[j] = Num(2)
    /\ Len(df.rows) = 2
    /\ result = Num(2)

(***************************************************************************)
(* C10: mostFrequent returns the sentinel when the table is empty or the   *)
(* column absent; when the column holds a non-missing value it returns a   *)
(* value of the column whose count is maximal among the non-missing ones.  *)
(***************************************************************************)
MostFrequentContract ==
    Returned("safe_groupby_operation", "count") =>
        /\ (IsEmpty(df) \/ ~HasCol(df, "Country")) => result = Sentinel
        /\ (~IsEmpty(df) /\ HasCol(df, "Country")) =>
             LET s == Series(df, "Country")
             IN  (\E i \in DOMAIN s : ~IsNaN(s[i])) =>
                    /\ ~IsNaN(result)
                    /\ \E i \in DOMAIN s : s[i] = result
                    /\ \A i \in DOMAIN s :
                         ~IsNaN(s[i]) => Count(s, s[i]) <= Count(s, result)

\* the value met second occurs twice, the value met first once
MostFrequentWitness ==
    /\ Returned("safe_groupby_operation", "count")
    /\ HasCol(df, "Country")
    /\ Len(df.rows) = 3
    /\ Series(df, "Country")[1] = Str("UK")
    /\ Series(df, "Country")[2] = Str("USA")
    /\ Series(df, "Country")[3] = Str("USA")
    /\ result = Str("USA")

(***************************************************************************)
(* apply_filters.  A dict of predicates is the sequence of its items in    *)
(* iteration order, each <<column, value>>, no column twice; a value is a  *)
(* cell, the wildcard being the text "All".                                *)
(***************************************************************************)
All == Str("All")

\* df[name] == value on one cell: a missing cell equals nothing
CellEq(c, v) == ~IsNaN(c) /\ c = v

\* fdf[fdf[name] == value]
Restrict(t, name, value) ==
    LET RECURSIVE Keep(_)
        Keep(i) == IF i > Len(t.rows) THEN <<>>
                   ELSE IF CellEq(t.rows[i][ColPos(t, name)], value)
                   THEN <<t.rows[i]>> \o Keep(i + 1)
                   ELSE Keep(i + 1)
    IN  [t EXCEPT !.rows = Keep(1)]

\* the loop of apply_filters from item i on; the comparison of a Series
\* with a scalar does not raise
RECURSIVE FilterLoop(_, _, _, _)
FilterLoop(t, cur, fs, i) ==
    IF i > Len(fs) THEN cur
    ELSE IF fs[i][2] # All /\ HasCol(t, fs[i][1])
    THEN FilterLoop(t, Restrict(cur, fs[i][1], fs[i][2]), fs, i + 1)
    ELSE FilterLoop(t, cur, fs, i + 1)

\* the loop with fdf = df[df[name] == value]: each predicate filters the input
RECURSIVE FilterLoopFromInput(_, _, _, _)
FilterLoopFromInput(t, cur, fs, i) ==
    IF i > Len(fs) THEN cur
    ELSE IF fs[i][2] # All /\ HasCol(t, fs[i][1])
    THEN FilterLoopFromInput(t, Restrict(t, fs[i][1], fs[i][2]), fs, i + 1)
    ELSE FilterLoopFromInput(t, cur, fs, i + 1)

apply_filters_last_wins(t, fs) == FilterLoopFromInput(t, t, fs, 1)

apply_filters(t, fs) == FilterLoop(t, t, fs, 1)

(***************************************************************************)
(* apply_filters on every small table over Year and Country (either may be *)
(* absent) and every dict over Year, Country and City, in every iteration  *)
(* order.                                                                  *)
(***************************************************************************)
YearCells == {NaN, Num(1985), Num(1990)}

CountryCells == {NaN, Str("UK"), Str("USA")}

FilterTables ==
    {[cols |-> <<"Year", "Country">>, rows |-> rs] :
        rs \in SeqsUpTo(YearCells \X CountryCells, MaxFilterRows)}
    \cup {[cols |-> <<"Year">>, rows |-> rs] :
        rs \in SeqsUpTo({<<c>> : c \in YearCells}, MaxFilterRows)}
    \cup {[cols |-> <<"Country">>, rows |-> rs] :
        rs \in SeqsUpTo({<<c>> : c \in CountryCells}, MaxFilterRows)}

FilterKeys == {"Year", "Country", "City"}

FilterValues(k) ==
    IF k = "Year" THEN {All, Num(1985), Num(1990)}
    ELSE IF k = "Country" THEN {All, Str("UK"), Str("USA")}
    ELSE {All, Str("Paris")}

FilterDicts ==
    {fs \in SeqsUpTo(FilterKeys \X (YearCells \cup CountryCells \cup {All, Str("Paris")}),
                     Cardinality(FilterKeys)) :
        /\ \A i, j \in DOMAIN fs : i # j => fs[i][1] # fs[j][1]
        /\ \A i \in DOMAIN fs : fs[i][2] \in FilterValues(fs[i][1])}

InitFilter ==
    /\ pc = "start"
    /\ raw = Unreadable
    /\ df \in FilterTables
    /\ filters \in FilterDicts
    /\ fdf = EmptyTable
    /\ page = "none"
    /\ out = <<>>
    /\ calls = <<>>
    /\ result = NaN

\* a call fdf = apply_filters(df, filters)
CallApplyFilters ==
    /\ pc = "start"
    /\ fdf' = apply_filters(df, filters)
    /\ calls' = <<<<"apply_filters", Len(df.rows)>>>>
    /\ pc' = "returned"
    /\ UNCHANGED <<raw, df, filters, page, out, result>>

SpecFilter == InitFilter /\ [][CallApplyFilters]_vars

(***************************************************************************)
(* C2: apply_filters returns exactly the rows of the input, in their       *)
(* original order, that equal the selected value on every column whose     *)
(* predicate is not "All" and which exists in the table; absent columns    *)
(* and "All" constrain nothing; the result depends on the set of           *)
(* predicates only, not on the order they are iterated in.                 *)
(***************************************************************************)
\* the row satisfies every binding predicate of the set P
RowMatches(t, row, P) ==
    \A p \in P : (p[2] # All /\ HasCol(t, p[1])) =>
        (~IsNaN(row[ColPos(t, p[1])]) /\ row[ColPos(t, p[1])] = p[2])

FilterIsConjunction ==
    pc = "returned" =>
        LET P == Range(filters)
            kept == {i \in DOMAIN df.rows : RowMatches(df, df.rows[i], P)}
        IN  /\ fdf.cols = df.cols
            /\ Len(fdf.rows) = Cardinality(kept)
            \* the result is the subsequence of the input at the kept positions
            /\ \A n \in DOMAIN fdf.rows :
                 \E i \in kept :
                    /\ Cardinality({j \in kept : j <= i}) = n
                    /\ fdf.rows[n] = df.rows[i]
            /\ (\A p \in P : p[2] = All \/ ~HasCol(df, p[1])) => fdf = df

\* two binding predicates, the first matching both rows, the second only one
FilterWitness ==
    /\ pc = "returned"
    /\ df.cols = <<"Year", "Country">>
    /\ df.rows = << <<Num(1985), Str("UK")>>, <<Num(1985), Str("USA")>> >>
    /\ filters = << <<"Country", Str("USA")>>, <<"City", Str("Paris")>>,
                    <<"Year", Num(1985)>> >>
    /\ fdf.rows = << <<Num(1985), Str("USA")>> >>

(***************************************************************************)
(* Texts and formats.  A text made from a number is kept as the number it  *)
(* was made from, under a tag of its own: it is no number and no data      *)
(* text, so it equals neither.                                             *)
(***************************************************************************)
\* int(x): truncation toward zero
Trunc(x) == IF x[2] >= 0 THEN x[2] \div x[3] ELSE -((-x[2]) \div x[3])

\* str(y) of a Python int
IntText(y) == <<"inttext", y, 1>>

\* year.isdigit(): the text of a negative int holds a sign
IsDigit(txt) == txt[1] = "inttext" /\ txt[2] >= 0

\* str(val): a text stays itself
PyStr(c) == IF c[1] = "str" THEN c ELSE <<"numtext", c[2], c[3]>>

\* the nearest integer to n/d (d > 0), ties to even
RoundHalfEven(n, d) ==
    LET q == n \div d
        r == n % d
    IN  IF 2 * r < d THEN q
        ELSE IF 2 * r > d THEN q + 1
        ELSE IF q % 2 = 0 THEN q ELSE q + 1

\* f"{n:,}"
FmtInt(n) == <<"fmt_int", n, 1>>

\* f"{x:.1f}": the number of tenths shown
Fmt1(x) == <<"fmt_1f", RoundHalfEven(10 * x[2], x[3]), 10>>

\* f"{x*100:.1f}%": the number of tenths of a percent shown
FmtPct(x) == <<"fmt_pct", RoundHalfEven(1000 * x[2], x[3]), 10>>

\* the truth value of an aggregate: None and 0 are false
Truthy(x) == x # None /\ ~(IsNum(x) /\ x[2] = 0)

\* x or 0
OrZero(x) == IF Truthy(x) THEN x ELSE Num(0)

(***************************************************************************)
(* The pages.  A page renderer yields what it shows, a sequence of         *)
(* <<kind, name, value>>, and the calls it makes, a sequence of            *)
(* <<function, rows received>>.                                            *)
(***************************************************************************)
Metric(name, value) == <<"metric", name, value>>

\* create_visualization: a warning for an empty series, a chart otherwise
create_visualization(empty, title) ==
    IF empty THEN <<"warning", title, NaN>> ELSE <<"chart", title, NaN>>

\* fdf.groupby(c).size(), fdf[c].value_counts(), fdf.groupby(c)[v].sum()
\* are empty when every key is missing
NoKeys(t, c) == Keys(Series(t, c)) = {}

ChartIf(t, needs, by, title) ==
    IF \A c \in needs : HasCol(t, c)
    THEN <<create_visualization(NoKeys(t, by), title)>> ELSE <<>>

\* the monthly sums reindexed to the calendar months present among the keys
MonthlyEmpty(t) ==
    {k \in Keys(Series(t, "Month Name")) : k[2] \in Range(month_names)} = {}

overview_metrics(t) ==
    LET air == safe_metric_calculation(Get(t, "Fatalities (Air)"), "sum", None)
        ground == safe_metric_calculation(Get(t, "Ground"), "sum", None)
        avg_fatalities ==
            safe_metric_calculation(Get(t, "Fatalities (Air)"), "mean", None)
        survival_rate ==
            safe_metric_calculation(Get(t, "Survival Rate"), "mean", None)
        country_most_deaths ==
            safe_groupby_operation(t, "Country", "Fatalities (Air)", "sum_max",
                                   Sentinel)
        year_most_incidents ==
            safe_groupby_operation(t, "Year", NoCol, "count", Sentinel)
    IN  << Metric("Total Incidents", FmtInt(Len(t.rows))),
           Metric("Air Fatalities", FmtInt(Trunc(OrZero(air)))),
           Metric("Ground Fatalities", FmtInt(Trunc(OrZero(ground)))),
           Metric("Avg Fatalities/Incident",
                  IF Truthy(avg_fatalities) THEN Fmt1(avg_fatalities)
                  ELSE Sentinel),
           Metric("Mean Survival Rate",
                  IF Truthy(survival_rate) THEN FmtPct(survival_rate)
                  ELSE Sentinel),
           Metric("Country w/ Most Deaths", PyStr(country_most_deaths)),
           Metric("Year w/ Most Incidents", PyStr(year_most_incidents)) >>

render_overview_page(t) ==
    overview_metrics(t)
    \o ChartIf(t, {"Year"}, "Year", "Incidents Over Time")
    \o (IF HasCol(t, "Month Name") /\ HasCol(t, "Fatalities (Air)")
        THEN <<create_visualization(MonthlyEmpty(t), "Fatalities by Month")>>
        ELSE <<>>)

render_time_page(t) ==
    ChartIf(t, {"Year"}, "Year", "Incidents per Year")
    \o ChartIf(t, {"Year", "Fatalities (Air)"}, "Year", "Fatalities per Year")

render_geography_page(t) ==
    ChartIf(t, {"Country"}, "Country", "Top 20 Countries by Incidents")
    \o ChartIf(t, {"Region"}, "Region", "Top 15 Regions by Incidents")

render_operators_page(t) ==
    ChartIf(t, {"Operator"}, "Operator", "Top 20 Operators by Incidents")

render_aircraft_page(t) ==
    ChartIf(t, {"Aircraft"}, "Aircraft", "Top 15 Aircraft by Incidents")
    \o ChartIf(t, {"Aircraft Manufacturer"}, "Aircraft Manufacturer",
               "Top 15 Manufacturers")

\* a column of numeric dtype: it holds no text
IsNumericCol(t, i) == \A r \in DOMAIN t.rows : t.rows[r][i][1] # "str"

\* the memory usage shown is the platform's, not modelled
render_data_page(t) ==
    << Metric("Total Rows", FmtInt(Len(t.rows))),
       Metric("Total Columns", FmtInt(Len(t.cols))),
       Metric("Memory Usage", NaN),
       <<"dataframe", "Filtered Dataset", NaN>>,
       IF \E i \in DOMAIN t.cols : IsNumericCol(t, i)
       THEN <<"dataframe", "Statistical Summary", NaN>>
       ELSE <<"info", "No numeric columns available", NaN>> >>

Pages ==
    {"Overview", "Time Analysis", "Geography", "Operators", "Aircraft",
     "Raw Data"}

Renderer(p) ==
    IF p = "Overview" THEN "render_overview_page"
    ELSE IF p = "Time Analysis" THEN "render_time_page"
    ELSE IF p = "Geography" THEN "render_geography_page"
    ELSE IF p = "Operators" THEN "render_operators_page"
    ELSE IF p = "Aircraft" THEN "render_aircraft_page"
    ELSE "render_data_page"

Rendered(p, t) ==
    IF p = "Overview" THEN render_overview_page(t)
    ELSE IF p = "Time Analysis" THEN render_time_page(t)
    ELSE IF p = "Geography" THEN render_geography_page(t)
    ELSE IF p = "Operators" THEN render_operators_page(t)
    ELSE IF p = "Aircraft" THEN render_aircraft_page(t)
    ELSE render_data_page(t)

\* the aggregation calls of a page, each with the rows it receives
PageCalls(p, t) ==
    LET n == Len(t.rows)
    IN  IF p = "Overview"
        THEN << <<"safe_metric_calculation", n>>, <<"safe_metric_calculation", n>>,
                <<"safe_metric_calculation", n>>, <<"safe_metric_calculation", n>>,
                <<"safe_groupby_operation", n>>, <<"safe_groupby_operation", n>> >>
        ELSE <<>>

(***************************************************************************)
(* main: one interaction pass, and the rerun the next interaction starts.  *)
(***************************************************************************)
FilterCols ==
    <<"Year", "Month Name", "Country", "Region", "City", "Operator",
      "Aircraft", "Aircraft Manufacturer">>

\* lines 176-181: the texts of the Year selectbox
YearOptions(t) ==
    IF HasCol(t, "Year")
    THEN {All} \cup {IntText(Trunc(y)) : y \in Keys(Series(t, "Year"))}
    ELSE {All}

\* line 203: int(year) if year != "All" and year.isdigit() else "All"
YearFilter(year) == IF year # All /\ IsDigit(year) THEN Num(year[2]) ELSE All

\* lines 184-191: the calendar months present in the table
MonthOptions(t) ==
    IF HasCol(t, "Month Name")
    THEN {All} \cup {Str(month_names[i]) : i \in
             {j \in DOMAIN month_names :
                 Str(month_names[j]) \in Range(Series(t, "Month Name"))}}
    ELSE {All}

\* add_dropdown without ordered_options: what the selectbox may return.
\* df[col] of a repeated label has no unique(); the except returns "All".
add_dropdown(t, col) ==
    IF ~HasCol(t, col) \/ IsDup(t, col) THEN {All}
    ELSE {All} \cup {PyStr(v) : v \in Keys(Series(t, col))}

\* the selectboxes the sidebar builds
Widgets(t) ==
    LET RECURSIVE W(_)
        W(i) == IF i > Len(FilterCols) THEN <<>>
                ELSE IF HasCol(t, FilterCols[i]) /\ ~IsDup(t, FilterCols[i])
                THEN << <<"selectbox", Len(t.rows)>> >> \o W(i + 1)
                ELSE W(i + 1)
    IN  W(1)

Active(fs) == Cardinality({i \in DOMAIN fs : fs[i][2] # All})

\* The table the dashboard is run on: three incidents under every column.
BaseCols ==
    <<"Year", "Month", "Country", "Region", "City", "Operator", "Aircraft",
      "Aircraft Manufacturer", "Aboard", "Fatalities (Air)", "Ground">>

BaseRows ==
    << <<Num(1985), Num(1), Str("USA"), Str("North America"), Str("NYC"),
         Str("PanAm"), Str("B747"), Str("Boeing"), Num(50), Num(50), Num(2)>>,
       <<Num(1990), Num(2), Str("UK"), Str("Europe"), Str("London"),
         Str("BA"), Str("A320"), Str("Airbus"), Num(200), Num(0), Num(0)>>,
       <<Num(1985), Num(1), Str("UK"), Str("Europe"), Str("Paris"),
         Str("BA"), Str("A320"), Str("Airbus"), NaN, NaN, NaN>> >>

\* the sequence s without the positions whose column is in absent
Without(s, absent) ==
    LET RECURSIVE P(_)
        P(i) == IF i > Len(BaseCols) THEN <<>>
                ELSE IF BaseCols[i] \in absent THEN P(i + 1)
                ELSE <<s[i]>> \o P(i + 1)
    IN  P(1)

Lacking(absent) ==
    File(Without(BaseCols, absent),
         [r \in DOMAIN BaseRows |-> Without(BaseRows[r], absent)])

MainInputs ==
    {Lacking(absent) : absent \in
        {A \in SUBSET Range(BaseCols) : Cardinality(A) <= MaxAbsent}}
    \cup {Unreadable,
          \* both spellings of a numeric column: the conversion raises
          File(<<"year", "Year", "Country">>,
               << <<Num(1985), Num(1985), Str("UK")>> >>),
          \* a header and no record
          File(BaseCols, <<>>),
          \* both spellings of a text column
          File(<<"Year", "month_name", "Month Name">>,
               << <<Num(1985), Str("January"), Str("January")>> >>)}

InitMain ==
    /\ pc = "start"
    /\ raw \in MainInputs
    /\ df = EmptyTable
    /\ Idle

\* lines 168-170
CheckLoaded ==
    /\ pc = "loaded"
    /\ IF IsEmpty(df)
       THEN /\ out' = Append(out, <<"error", "Unable to load data", NaN>>)
            /\ pc' = "done"
       ELSE /\ out' = out
            /\ pc' = "sidebar"
    /\ UNCHANGED <<raw, df, filters, fdf, page, calls, result>>

\* lines 172-211: the selectboxes and the dict of their values.  Line 187
\* takes df["Month Name"].unique(), which a repeated label does not have.
BuildFilters ==
    /\ pc = "sidebar"
    /\ IF IsDup(df, "Month Name")
       THEN /\ pc' = "crashed"
            /\ out' = Append(out, <<"exception", "AttributeError", NaN>>)
            /\ UNCHANGED <<filters, calls>>
       ELSE /\ \E year \in YearOptions(df), month \in MonthOptions(df),
                  country \in add_dropdown(df, "Country"),
                  region \in add_dropdown(df, "Region"),
                  city \in add_dropdown(df, "City"),
                  operator \in add_dropdown(df, "Operator"),
                  aircraft \in add_dropdown(df, "Aircraft"),
                  aircraft_manufacturer \in
                      add_dropdown(df, "Aircraft Manufacturer") :
                 /\ filters' =
                      << <<"Year", YearFilter(year)>>, <<"Month Name", month>>,
                         <<"Country", country>>, <<"Region", region>>,
                         <<"City", city>>, <<"Operator", operator>>,
                         <<"Aircraft", aircraft>>,
                         <<"Aircraft Manufacturer", aircraft_manufacturer>> >>
                 /\ Active(filters') <= MaxActive
            /\ calls' = calls \o Widgets(df)
            /\ pc' = "apply"
            /\ out' = out
    /\ UNCHANGED <<raw, df, fdf, page, result>>

\* line 213
ApplyFilters ==
    /\ pc = "apply"
    /\ fdf' = apply_filters(df, filters)
    /\ calls' = Append(calls, <<"apply_filters", Len(df.rows)>>)
    /\ pc' = "nav"
    /\ UNCHANGED <<raw, df, filters, page, out, result>>

\* lines 216-221
Navigate ==
    /\ pc = "nav"
    /\ page' \in Pages
    /\ calls' = Append(calls, <<"selectbox", Len(df.rows)>>)
    /\ pc' = "title"
    /\ UNCHANGED <<raw, df, filters, fdf, out, result>>

\* lines 224-225: the title line reads df['Year'] whether or not it exists
Title ==
    /\ pc = "title"
    /\ IF HasCol(df, "Year")
       THEN /\ out' = Append(out, <<"markdown", "Filtered Records",
                                    FmtInt(Len(fdf.rows))>>)
            /\ pc' = "check"
       ELSE /\ out' = Append(out, <<"exception", "KeyError: 'Year'", NaN>>)
            /\ pc' = "crashed"
    /\ UNCHANGED <<raw, df, filters, fdf, page, calls, result>>

\* lines 227-229
CheckFiltered ==
    /\ pc = "check"
    /\ IF IsEmpty(fdf)
       THEN /\ out' = Append(out, <<"warning",
                                    "No data matches the current filters", NaN>>)
            /\ pc' = "done"
       ELSE /\ out' = out
            /\ pc' = "render"
    /\ UNCHANGED <<raw, df, filters, fdf, page, calls, result>>

\* lines 232-243
Render ==
    /\ pc = "render"
    /\ out' = out \o Rendered(page, fdf)
    /\ calls' = Append(calls, <<Renderer(page), Len(fdf.rows)>>)
                   \o PageCalls(page, fdf)
    /\ pc' = "done"
    /\ UNCHANGED <<raw, df, filters, fdf, page, result>>

\* the next interaction runs the script again from its first line; the
\* table of the first load stays in the cache of st.cache_data
Rerun ==
    /\ pc \in {"done", "crashed"}
    /\ pc' = "start"
    /\ filters' = <<>>
    /\ fdf' = EmptyTable
    /\ page' = "none"
    /\ out' = <<>>
    /\ calls' = <<>>
    /\ UNCHANGED <<raw, df, result>>

NextMain ==
    \/ Load
    \/ CheckLoaded
    \/ BuildFilters
    \/ ApplyFilters
    \/ Navigate
    \/ Title
    \/ CheckFiltered
    \/ Render
    \/ Rerun

SpecMain == InitMain /\ [][NextMain]_vars

Shown(kind, name) == \E i \in DOMAIN out : out[i][1] = kind /\ out[i][2] = name

Called(fn) == \E i \in DOMAIN calls : calls[i][1] = fn

RendererNames ==
    {"render_overview_page", "render_time_page", "render_geography_page",
     "render_operators_page", "render_aircraft_page", "render_data_page"}

AggregationNames == {"safe_metric_calculation", "safe_groupby_operation"}

(***************************************************************************)
(* C6: on the Overview page each KPI backed by an aggregate shows the      *)
(* sentinel exactly when its aggregate is unavailable (column absent, or   *)
(* series empty or all missing), and a formatted number when it is         *)
(* available, an available 0 included.                                     *)
(***************************************************************************)
Available(t, c) == \E i \in DOMAIN Get(t, c) : ~IsNaN(Get(t, c)[i])

KpiColumns ==
    {<<"Air Fatalities", "Fatalities (Air)">>, <<"Ground Fatalities", "Ground">>,
     <<"Avg Fatalities/Incident", "Fatalities (Air)">>,
     <<"Mean Survival Rate", "Survival Rate">>}

KpiSentinelIffUnavailable ==
    (pc = "done" /\ Called("render_overview_page")) =>
        \A k \in KpiColumns : \A i \in DOMAIN out :
            (out[i][1] = "metric" /\ out[i][2] = k[1]) =>
                ((out[i][3] = Sentinel) <=> ~Available(fdf, k[2]))

(***************************************************************************)
(* C7: on a non-empty loaded table that lacks optional columns (and holds  *)
(* no label twice), a pass of main ends without an uncaught error,         *)
(* whatever the page and the selection.                                    *)
(***************************************************************************)
MissingColumnsNeverCrash ==
    (~IsEmpty(df) /\ Distinct(df.cols)) => pc # "crashed"

(***************************************************************************)
(* C8: when reading or normalizing raises, load_data returns the empty     *)
(* table; after an empty load result main shows an error and ends the      *)
(* pass: no selectbox is built, apply_filters is not called, no            *)
(* aggregation and no page renderer runs.                                  *)
(***************************************************************************)
LoadFailureHalts ==
    /\ (pc # "start" /\ LoadRaises(raw)) =>
          (df = EmptyTable /\ Shown("error", "Error loading data"))
    /\ (pc # "start" /\ IsEmpty(df)) =>
          /\ pc \in {"loaded", "done"}
          /\ pc = "done" => Shown("error", "Unable to load data")
          /\ ~Called("selectbox") /\ ~Called("apply_filters")
          /\ \A fn \in RendererNames \cup AggregationNames : ~Called(fn)
          /\ filters = <<>> /\ page = "none"

\* a file whose normalization raised, and the pass that ended on the error
LoadFailureWitness ==
    /\ pc = "done"
    /\ raw.readable
    /\ LoadRaises(raw)
    /\ df = EmptyTable
    /\ Shown("error", "Unable to load data")

(***************************************************************************)
(* C9: when the selected predicates match no row, apply_filters yields an  *)
(* empty table, main shows the empty-result warning and returns, and no    *)
(* aggregation and no page renderer is invoked on an empty filtered table: *)
(* every renderer receives at least one row.                               *)
(***************************************************************************)
EmptyResultWarns ==
    /\ \A i \in DOMAIN calls :
          calls[i][1] \in RendererNames \cup AggregationNames => calls[i][2] >= 1
    /\ (pc \in {"done", "crashed"} /\ Called("apply_filters")
            /\ Len(fdf.rows) = 0) =>
          /\ pc = "done"
          /\ Shown("warning", "No data matches the current filters")
          /\ \A fn \in RendererNames \cup AggregationNames : ~Called(fn)

=============================================================================
